---- MODULE Spec2Model ----
(***************************************************************************)
(* Model of MechanicalVRExperience (src/concept.js): the interaction and   *)
(* feedback core.  State is the scene's meshes (scaling, position.z), the  *)
(* shared 'main' particle system, the spatial sounds, the pending          *)
(* setTimeout callbacks, the XR helper and the per-controller trigger      *)
(* subscriptions.  Every handler of the source is one action.              *)
(*                                                                         *)
(* Units.  Time is counted in steps of 100 ms (the delays of the source    *)
(* are 100 ms and 200 ms).  scaling is a uniform vector, kept as one       *)
(* component in tenths (10 = 1.0, 12 = 1.2).  position.z is kept in        *)
(* hundredths (10 = 0.1, step 2 = 0.02); the IEEE-754 double results of    *)
(* 0.1 - 0.02k and back (+ 0.02k) are exact for the k the model reaches,   *)
(* so integer arithmetic computes what the source computes.                *)
(***************************************************************************)
EXTENDS Integers, Sequences, FiniteSets, Bags, TLC

\* ---------------------------------------------------------------- bounds
NumMechanical == 1      \* the source creates 8 (count, line 134)
NumButtons == 1         \* the source creates 10 (buttonPositions, line 207)
NumControllers == 1     \* XR input sources that may connect
MaxTimers == 2          \* pending setTimeout callbacks
MaxSounds == 2          \* sounds playing at once in the scene

\* ------------------------------------------------------ program constants
ScaleRest == 10         \* Vector3(1, 1, 1)
ScalePulse == 12        \* Vector3(1.2, 1.2, 1.2)
ScaleDelay == 2         \* setTimeout(..., 200)
ButtonZ == 10           \* button.position.z = 0.1
PressDepth == 2         \* position.z -= 0.02
PressDelay == 1         \* setTimeout(..., 100)

\* ----------------------------------------------------------------- meshes
Mechanicals == {<<"mechanical", i>> : i \in 0..(NumMechanical - 1)}
Buttons == {<<"button", i>> : i \in 0..(NumButtons - 1)}
Ground == <<"ground", 0>>
Panel == <<"panel", 0>>
Radar == <<"radar", 0>>
NonInteractive == {Ground, Panel, Radar}
Interactive == Mechanicals \cup Buttons
Meshes == Interactive \cup NonInteractive
NoMesh == <<"none", 0>>
DefaultEmitter == <<"origin", 0>>
Controllers == 0..(NumControllers - 1)

VARIABLES
    pc,               \* position of initialize(): "constructed", "awaitXR", "running"
    xr,               \* xrHelper: "none", "ok", "failed"
    ctrl,             \* per controller: "absent", "added", "motionInit", "attached"
    pressed,          \* per controller: pressed flag of the last notification
    dispatched,       \* the last input handler reached an activation handler call (lines 171, 227, 258)
    thrown,           \* the last input handler ended in an uncaught exception
    scaling,          \* mesh.scaling, per mesh
    posZ,             \* mesh.position.z, per mesh (0 for a mesh that is not a button: never written)
    emitter,          \* particleSystem.emitter: the mesh whose position vector it references
    particlesStarted, \* particleSystem started and not stopped
    sounds,           \* per mesh: sounds attached to it that are playing
    timers,           \* bag of pending setTimeout callbacks
    reqs,             \* the requests issued by the last activation handler, in order
    input             \* the last input event: its source, what its ray hit, its pressed flag

vars == <<pc, xr, ctrl, pressed, dispatched, thrown, scaling, posZ, emitter,
          particlesStarted, sounds, timers, reqs, input>>

effects == <<scaling, posZ, emitter, particlesStarted, sounds, timers>>

\* ------------------------------------------------------------ the "world"
\* The part of the state the activation handlers read and write, passed
\* through the handlers as one record so that one handler can call another.
\* reqs, err and called start empty for each handler run.
World ==
    [scaling |-> scaling, posZ |-> posZ, emitter |-> emitter,
     particlesStarted |-> particlesStarted, sounds |-> sounds,
     timers |-> timers, reqs |-> <<>>, err |-> FALSE, called |-> FALSE]

\* A pending setTimeout callback.  snapshot is the value the property had
\* just before the activation that scheduled the callback.
Timer(mesh, prop, delay, snapshot) ==
    [mesh |-> mesh, prop |-> prop, remaining |-> delay, snapshot |-> snapshot]

Req(op, mesh, arg) == [op |-> op, mesh |-> mesh, arg |-> arg]

\* onMechanicalElementActivated(mesh), lines 264-286.  played: whether the
\* audio collaborator actually plays the new sound (play() on a sound that
\* failed to load does nothing).
onMechanicalElementActivated(W, mesh, played) ==
    [W EXCEPT
        !.emitter = mesh,
        !.particlesStarted = TRUE,
        !.sounds = [W.sounds EXCEPT ![mesh] = @ + (IF played THEN 1 ELSE 0)],
        !.scaling = [W.scaling EXCEPT ![mesh] = ScalePulse],
        !.timers = W.timers (+) SetToBag({Timer(mesh, "scaling", ScaleDelay, W.scaling[mesh])}),
        !.reqs = W.reqs \o << Req("setEmitter", mesh, 0),
                              Req("particleStart", mesh, 0),
                              Req("newSound", mesh, 0),
                              Req("attachToMesh", mesh, 0),
                              Req("play", mesh, 0),
                              Req("setScaling", mesh, ScalePulse),
                              Req("setTimeout", mesh, ScaleDelay) >>]

\* A button handler with an effect path of its own: the press-in, particles
\* and the scale pulse, but no sound.
onButtonPressedOwnEffect(W, button, played) ==
    [W EXCEPT
        !.posZ = [W.posZ EXCEPT ![button] = @ - PressDepth],
        !.emitter = button,
        !.particlesStarted = TRUE,
        !.scaling = [W.scaling EXCEPT ![button] = ScalePulse],
        !.timers = W.timers (+) SetToBag({Timer(button, "z", PressDelay, W.posZ[button])})
                            (+) SetToBag({Timer(button, "scaling", ScaleDelay, W.scaling[button])}),
        !.reqs = W.reqs \o << Req("pressIn", button, PressDepth),
                              Req("setTimeout", button, PressDelay),
                              Req("setEmitter", button, 0),
                              Req("particleStart", button, 0),
                              Req("setScaling", button, ScalePulse),
                              Req("setTimeout", button, ScaleDelay) >>]

\* onButtonPressed(button), lines 288-296.
onButtonPressed(W, button, played) ==
    LET W1 == [W EXCEPT
                 !.posZ = [W.posZ EXCEPT ![button] = @ - PressDepth],
                 !.timers = W.timers (+) SetToBag({Timer(button, "z", PressDelay, W.posZ[button])}),
                 !.reqs = W.reqs \o << Req("pressIn", button, PressDepth),
                                       Req("setTimeout", button, PressDelay) >>]
    IN onMechanicalElementActivated(W1, button, played)

\* A dispatch that treats whatever mesh the ray hit as a mechanical element.
onControllerInteractionAnyMesh(W, mesh, played) ==
    onMechanicalElementActivated(W, mesh, played)

\* this.onControllerInteraction(mesh), line 258: the class defines no such
\* method, so the call evaluates undefined(...) and throws a TypeError
\* before anything is changed.
onControllerInteraction(W, mesh, played) ==
    [W EXCEPT !.err = TRUE]

\* The OnPickTrigger action registered on a mesh, lines 166-173 and 222-229.
\* The ground, the panel and the radar get no actionManager.
onPickTrigger(W, mesh, played) ==
    IF mesh \in Mechanicals
    THEN onMechanicalElementActivated([W EXCEPT !.called = TRUE], mesh, played)
    ELSE IF mesh \in Buttons
    THEN onButtonPressed([W EXCEPT !.called = TRUE], mesh, played)
    ELSE W

\* A timeout callback, lines 283-285 and 290-292.
fireTimeout(W, t) ==
    IF t.prop = "scaling"
    THEN [W EXCEPT !.scaling = [W.scaling EXCEPT ![t.mesh] = ScaleRest]]
    ELSE [W EXCEPT !.posZ = [W.posZ EXCEPT ![t.mesh] = @ + PressDepth]]

\* The trigger handler of setupControllerInteractions, lines 252-261, run on
\* a trigger-state-change notification with eventData.pressed = p; mesh is
\* what the controller's ray hits, NoMesh when pick.hit is false.
triggerHandler(W, p, mesh, played) ==
    IF p /\ mesh # NoMesh
    THEN onControllerInteraction([W EXCEPT !.called = TRUE], mesh, played)
    ELSE W

\* ------------------------------------------------------------ bookkeeping
SumOver(f, S) ==
    LET RECURSIVE Sum(_)
        Sum(T) == IF T = {} THEN 0
                  ELSE LET x == CHOOSE y \in T : TRUE IN f[x] + Sum(T \ {x})
    IN Sum(S)

\* The model's bounds: a handler's result is admitted only within them.
WithinBounds(W) ==
    /\ BagCardinality(W.timers) <= MaxTimers
    /\ SumOver(W.sounds, Meshes) <= MaxSounds

Commit(W) ==
    /\ scaling' = W.scaling
    /\ posZ' = W.posZ
    /\ emitter' = W.emitter
    /\ particlesStarted' = W.particlesStarted
    /\ sounds' = W.sounds
    /\ timers' = W.timers
    /\ thrown' = W.err
    /\ dispatched' = W.called
    /\ reqs' = IF W.reqs = <<>> THEN reqs ELSE W.reqs

\* What a ray hit, as the claims distinguish it.
Kind(mesh) ==
    IF mesh = NoMesh THEN "miss"
    ELSE IF mesh \in Interactive THEN "interactive"
    ELSE "inert"

Input(src, hit, p) == [src |-> src, hit |-> hit, p |-> p]

\* ------------------------------------------------------------------ Init
\* The state after the constructor (lines 20-26).  The meshes' fields hold
\* the values createEnvironment gives them (default scaling, lines 146, 219).
Init ==
    /\ pc = "constructed"
    /\ xr = "none"
    /\ ctrl = [c \in Controllers |-> "absent"]
    /\ pressed = [c \in Controllers |-> FALSE]
    /\ dispatched = FALSE
    /\ thrown = FALSE
    /\ scaling = [m \in Meshes |-> ScaleRest]
    /\ posZ = [m \in Meshes |-> IF m \in Buttons THEN ButtonZ ELSE 0]
    /\ emitter = DefaultEmitter
    /\ particlesStarted = FALSE
    /\ sounds = [m \in Meshes |-> 0]
    /\ timers = EmptyBag
    /\ reqs = <<>>
    /\ input = Input("none", "miss", FALSE)

\* --------------------------------------------------------------- actions
\* initialize() up to the await of CreateAsync, lines 28-53 and 60-65.
Initialize ==
    /\ pc = "constructed"
    /\ pc' = "awaitXR"
    /\ UNCHANGED <<xr, ctrl, pressed, dispatched, thrown, reqs, input, effects>>

\* CreateAsync resolves: the controller observers are added (lines 67-74),
\* setupVR returns and initialize starts the render loop (lines 55-57).
SetupVRSucceeds ==
    /\ pc = "awaitXR"
    /\ xr' = "ok"
    /\ pc' = "running"
    /\ UNCHANGED <<ctrl, pressed, dispatched, thrown, reqs, input, effects>>

\* setupVR without the catch: the rejection leaves initialize() rejected
\* before the render loop is started.
setupVRRethrow == [xr |-> "failed", pc |-> "rejected"]

\* What the catch block of setupVR leaves behind: the error is logged
\* (lines 75-77), setupVR returns normally and initialize goes on to start
\* the render loop (lines 55-57).
setupVRCatch == [xr |-> "failed", pc |-> "running"]

\* CreateAsync rejects (XR unavailable or session creation failed).
SetupVRFails ==
    /\ pc = "awaitXR"
    /\ xr' = setupVRCatch.xr
    /\ pc' = setupVRCatch.pc
    /\ UNCHANGED <<ctrl, pressed, dispatched, thrown, reqs, input, effects>>

\* onControllerAddedObservable, onMotionControllerInitObservable and
\* onModelLoadedObservable, lines 68-72: the last one attaches the trigger
\* handler (setupControllerInteractions, line 252).
nextStage(stage) ==
    IF stage = "absent" THEN "added"
    ELSE IF stage = "added" THEN "motionInit"
    ELSE "attached"

ControllerProgress(c) ==
    /\ xr = "ok"
    /\ ctrl[c] # "attached"
    /\ ctrl' = [ctrl EXCEPT ![c] = nextStage(@)]
    /\ UNCHANGED <<pc, xr, pressed, dispatched, thrown, reqs, input, effects>>

\* A pointer pick (OnPickTrigger) once the render loop runs: mesh is what
\* the ray hits, NoMesh when it hits nothing.
PointerPick(mesh, played) ==
    /\ pc = "running"
    /\ LET W == onPickTrigger(World, mesh, played) IN
        /\ WithinBounds(W)
        /\ Commit(W)
    /\ input' = Input("pointer", Kind(mesh), FALSE)
    /\ UNCHANGED <<pc, xr, ctrl, pressed>>

\* A trigger-state-change notification of controller c with
\* eventData.pressed = p (it also comes when only the trigger's analog value
\* changed, so p may repeat).
TriggerStateChanged(c, p, mesh, played) ==
    /\ ctrl[c] = "attached"
    /\ LET W == triggerHandler(World, p, mesh, played) IN
        /\ WithinBounds(W)
        /\ Commit(W)
    /\ pressed' = [pressed EXCEPT ![c] = p]
    /\ input' = Input("controller", Kind(mesh), p)
    /\ UNCHANGED <<pc, xr, ctrl>>

\* 100 ms pass: allowed when no pending timeout is due.
Tick ==
    /\ timers # EmptyBag
    /\ \A t \in BagToSet(timers) : t.remaining > 0
    /\ timers' = BagOfAll(LAMBDA t : [t EXCEPT !.remaining = @ - 1], timers)
    /\ UNCHANGED <<pc, xr, ctrl, pressed, dispatched, thrown, reqs, input, scaling, posZ,
                   emitter, particlesStarted, sounds>>

\* A due timeout callback runs.
FireTimer(t) ==
    /\ BagIn(t, timers)
    /\ t.remaining = 0
    /\ LET W == fireTimeout([World EXCEPT !.timers = timers (-) SetToBag({t})], t) IN
        /\ scaling' = W.scaling
        /\ posZ' = W.posZ
        /\ timers' = W.timers
    /\ UNCHANGED <<pc, xr, ctrl, pressed, dispatched, thrown, reqs, input,
                   emitter, particlesStarted, sounds>>

\* A playing sound reaches its end.
SoundEnded(mesh) ==
    /\ sounds[mesh] > 0
    /\ sounds' = [sounds EXCEPT ![mesh] = @ - 1]
    /\ UNCHANGED <<pc, xr, ctrl, pressed, dispatched, thrown, reqs, input, scaling, posZ,
                   emitter, particlesStarted, timers>>

Next ==
    \/ Initialize
    \/ SetupVRSucceeds
    \/ SetupVRFails
    \/ \E c \in Controllers : ControllerProgress(c)
    \/ \E mesh \in Meshes \cup {NoMesh}, played \in BOOLEAN : PointerPick(mesh, played)
    \/ \E c \in Controllers, p \in BOOLEAN, mesh \in Meshes \cup {NoMesh}, played \in BOOLEAN :
          TriggerStateChanged(c, p, mesh, played)
    \/ Tick
    \/ \E t \in BagToSet(timers) : FireTimer(t)
    \/ \E mesh \in Meshes : SoundEnded(mesh)

Spec == Init /\ [][Next]_vars

\* The event loop runs due callbacks, time passes, and sounds end.
FairSpec ==
    /\ Spec
    /\ WF_vars(Tick)
    /\ WF_vars(\E t \in BagToSet(timers) : FireTimer(t))
    /\ WF_vars(\E mesh \in Meshes : SoundEnded(mesh))

\* =================================================================
\* Properties
\* =================================================================
PendingCount(mesh, prop) ==
    SumOver(timers, {t \in BagToSet(timers) : t.mesh = mesh /\ t.prop = prop})

PropertyOf(t, sc, z) == IF t.prop = "scaling" THEN sc[t.mesh] ELSE z[t.mesh]

\* An effect of mesh m is in flight: the particle system emits at m, or a
\* sound attached to m is playing.
InFlight(m) == (particlesStarted /\ emitter = m) \/ sounds[m] > 0

\* C1: rising-edge-only activation.  A trigger notification that arrives
\* while the controller's trigger is already pressed (pressed stays true)
\* reaches no activation dispatch; only the false-to-true notification does.
C1_RisingEdgeOnly ==
    [][\A c \in Controllers :
         (pressed[c] /\ \E mesh \in Meshes \cup {NoMesh}, played \in BOOLEAN :
                            TriggerStateChanged(c, TRUE, mesh, played))
         => ~dispatched']_vars

\* C2: at-most-one-effect.  In every reachable state every mesh has at most
\* one sound instance playing (one particle+audio pair in flight); a second
\* activation never adds a concurrently playing instance.
C2_AtMostOneEffect == \A m \in Meshes : sounds[m] <= 1

\* C3: transient feedback round trip.  When the timeout of an activation
\* runs (its feedback duration has elapsed), the property it reverts equals
\* the value the property had just before that activation.
C3_RoundTrip ==
    [][\A t \in BagToSet(timers) :
         FireTimer(t) => PropertyOf(t, scaling', posZ') = t.snapshot]_vars

\* C4: no activation from a miss or a non-interactive hit.  A pointer pick or
\* a trigger notification whose ray hits nothing, the ground, the panel or
\* the radar runs no activation handler (no request is issued) and changes
\* no transform, particle, sound or timer state.
NonInteractiveInput ==
    \/ \E mesh \in NonInteractive \cup {NoMesh}, played \in BOOLEAN :
          PointerPick(mesh, played)
    \/ \E c \in Controllers, p \in BOOLEAN, mesh \in NonInteractive \cup {NoMesh},
          played \in BOOLEAN : TriggerStateChanged(c, p, mesh, played)

C4_NoActivationOnMiss == [][NonInteractiveInput => UNCHANGED <<effects, reqs>>]_vars

\* C4 witness: a trigger press whose ray hit a non-interactive mesh has been
\* handled, while an earlier activation's effect state is there to be changed.
C4_Witness ==
    /\ input = Input("controller", "inert", TRUE)
    /\ particlesStarted
    /\ timers # EmptyBag

\* C5: a trigger press whose ray hits an interactive mesh is handled without
\* error and activates the mesh as a pointer pick does (particles started,
\* the activation's requests issued).
C5_ControllerActivates ==
    input = Input("controller", "interactive", TRUE)
        => ~thrown /\ particlesStarted /\ reqs # <<>>

\* C6: degradation.  Once XR setup has failed, initialize() has completed
\* with the render loop running, no controller ever gets a trigger handler,
\* no input ever comes from a controller, and a pointer pick of an
\* interactive mesh has activated it.
C6_Degradation ==
    xr = "failed" =>
        /\ pc = "running"
        /\ \A c \in Controllers : ctrl[c] = "absent" /\ ~pressed[c]
        /\ input.src # "controller"
        /\ ~thrown
        /\ input = Input("pointer", "interactive", FALSE) =>
              /\ dispatched
              /\ particlesStarted
              /\ emitter \in Interactive
              /\ reqs # <<>>

\* C6 witness: XR setup failed and a pointer pick activated a mesh.
C6_Witness ==
    /\ xr = "failed"
    /\ input = Input("pointer", "interactive", FALSE)
    /\ particlesStarted

\* The effect requests of an activation of mesh, in order: emitter set to
\* the mesh's position, particles started, a sound created, attached and
\* played, the scale pulse applied and its reversion scheduled.
EffectShape(mesh) ==
    << Req("setEmitter", mesh, 0), Req("particleStart", mesh, 0),
       Req("newSound", mesh, 0), Req("attachToMesh", mesh, 0),
       Req("play", mesh, 0), Req("setScaling", mesh, ScalePulse),
       Req("setTimeout", mesh, ScaleDelay) >>

IsPressFeedback(r) ==
    r.op = "pressIn" \/ (r.op = "setTimeout" /\ r.arg = PressDelay)

IsEffectRequest(r) == ~IsPressFeedback(r)

\* C7: button/mechanical parity.  Whichever interactive mesh was activated
\* last, a button or a mechanical element, the effect requests its handler
\* issued are the same sequence, with only the mesh differing.
C7_Parity ==
    reqs # <<>> => SelectSeq(reqs, IsEffectRequest) = EffectShape(emitter)

\* C7 witness: the last activation was a button's, and it went through the
\* button's press-in as well as the effect requests.
C7_Witness ==
    /\ emitter \in Buttons
    /\ Len(reqs) > Len(EffectShape(emitter))
    /\ input = Input("pointer", "interactive", FALSE)

\* C8: at most one outstanding transient feedback.  Every mesh has at most
\* one pending reversion per feedback property.
C8_OnePendingReversion ==
    \A m \in Meshes : \A prop \in {"scaling", "z"} : PendingCount(m, prop) <= 1

\* C9: an in-flight effect eventually clears.  Whenever an effect of a mesh
\* is in flight, it is eventually no longer in flight.
C9_EffectEventuallyClears ==
    \A m \in Interactive : InFlight(m) ~> ~InFlight(m)

\* C10: no coalescing across entities.  Activating mesh y while the effect
\* of another mesh is in flight leaves that effect's emitter where it is.
C10_NoCoalescing ==
    [][\A y \in Interactive, played \in BOOLEAN :
         (/\ PointerPick(y, played)
          /\ emitter \in Interactive \ {y}
          /\ InFlight(emitter)
          /\ sounds[emitter] > 0)
         => emitter' = emitter]_vars
====
